---- MODULE Spec2Model ----
(***************************************************************************)
(* Line-annotation tracking of the two-editor collaboration demo:          *)
(* Marker (src/src/components/Marker.js) and the edit handlers of          *)
(* useRealTimeCollaboration (src/src/hooks/useRealTimeCollaboration.js).   *)
(*                                                                         *)
(* A buffer (the editor text) is modelled by the result of                 *)
(* content.split('\n'): a non-empty sequence of lines; the empty string    *)
(* is the one-line buffer << "" >>, the only falsy content.  What          *)
(* codeEditorX.getContent() returns is an input of each handler.           *)
(* A JavaScript Map is modelled by the sequence of its values in insertion *)
(* order; the key of a marker is its field `line`.                         *)
(* The rendering surface (.code-editor inside the marker layer's parent)   *)
(* is taken to be present, as the hook requires before it wires anything.  *)
(***************************************************************************)
EXTENDS Integers, Sequences, FiniteSets, TLC

\* ------------------------------------------------------------------ bounds
\* Highest line number an operation is called with.
MaxLine == 3
\* The clock stops advancing here.
MaxTime == 500
\* Longest buffer, in lines.
MaxBufferLines == 1
\* Edit events (onLineAdded / onLineEdited calls) in one run.
MaxEvents == 3
\* Longest text, in characters, mergeCode is called with.
MaxChars == 3
\* Longest line sequence adjustByContent is called with.
MaxAdjustLines == 2
\* Most timers pending at once.
MaxTimers == 3
\* Most pushes and pulls in a run.
MaxSyncs == 3

\* ------------------------------------------------------- program constants
\* Trailing window of the burst detector, in ms.
BurstWindow == 500
\* What the clock may advance by between two events: a step inside the
\* window, or a whole window.
TickSteps == {BurstWindow \div 2, BurstWindow}

Side == {"A", "B"}
UserName(s) == IF s = "A" THEN "User A" ELSE "User B"
Other(s) == IF s = "A" THEN "B" ELSE "A"
Users == {"User A", "User B"}
ChangeTypes == {"added", "edited"}
LineText == {"", "a"}

\* endLine = null (and the equally falsy 0)
NoEndLine == 0

VARIABLES
    persistentMarkers,  \* Marker.persistentMarkers of markerA / markerB
    changes,            \* changesA / changesB: lineNumber -> changeData
    reservations,       \* reservationsA / reservationsB
    recentAdditions,    \* recentAdditionsA / recentAdditionsB
    recentEdits,        \* recentEditsA / recentEditsB
    baselineContent,    \* baselineContentA / baselineContentB
    rangeResult,        \* what detectRangeInsertion / detectRangeEdit returned last
    now,                \* Date.now()
    warned,             \* the conflict the last edit event wrote to the console, if any
    uncommittedBlocks,  \* uncommittedBlocksA / uncommittedBlocksB
    changeBlocks,       \* ChangeBlock.blocks of changeBlocksA / changeBlocksB
    splitResult,        \* what ChangeBlock.split returned last
    groupedFrom,        \* history: the facts createChangeBlocks was last called with
    mergeCall,          \* a call of mergeCode: its arguments and what it returned
    icons,              \* GutterIcons.icons of a GutterIcons driven on its own
    timers,             \* the callbacks handed to setTimeout and not yet run
    content,            \* what codeEditorA / codeEditorB .getContent() returns
    gitRepository,      \* gitRepository.userA / .userB
    logged,             \* what the last push or pull wrote to the console
    nSyncs,             \* history: pushes and pulls so far
    lastEdit,           \* history: per side and kind, the time of the last edit event
    burst,              \* history: per side, the run of consecutive-line events in progress
    nEvents             \* history: edit events so far

\* The change blocks and what is derived from them.
blockVars == <<uncommittedBlocks, changeBlocks, splitResult, groupedFrom>>

\* The functions and components driven on their own.
callVars == <<mergeCall, icons>>

\* The editors' texts and what has been pushed.
repoVars == <<content, gitRepository, logged, nSyncs>>

vars == <<persistentMarkers, changes, reservations, recentAdditions, recentEdits,
          baselineContent, rangeResult, now, warned, blockVars, callVars, timers,
          repoVars, lastEdit, burst, nEvents>>

Min(a, b) == IF a < b THEN a ELSE b
Max(a, b) == IF a > b THEN a ELSE b
Range(f) == {f[i] : i \in DOMAIN f}

\* ============================================================== Marker.js
\* Map.has / Map.delete / Map.set on the insertion-ordered sequence of values.
MapHas(pm, k) == \E i \in 1..Len(pm) : pm[i].line = k

MapDelete(pm, k) == SelectSeq(pm, LAMBDA m : m.line # k)

MapSet(pm, k, marker) ==
    IF MapHas(pm, k)
    THEN [i \in 1..Len(pm) |-> IF pm[i].line = k THEN marker ELSE pm[i]]
    ELSE Append(pm, marker)

\* updateMarkerRange: delete the old key, rewrite dataset.line / endLine,
\* set under the new key (which evicts whatever marker held that key).
updateMarkerRange(pm, marker, newStart, newEnd) ==
    MapSet(MapDelete(pm, marker.line), newStart,
           [marker EXCEPT !.line = newStart, !.endLine = newEnd])

\* Array.from(values).sort by dataset.line (keys are distinct).
SortByLine(pm) ==
    [i \in 1..Len(pm) |->
        CHOOSE m \in Range(pm) :
            Cardinality({x \in Range(pm) : x.line < m.line}) = i - 1]

\* Variant: the consolidation pass without its same-user test.
TouchingAnyUser(curr, next) ==
    curr.endLine + 1 = next.line

\* "Check adjacency and same user": the test of consolidateAllMarkers.
TouchingSameUser(curr, next) ==
    curr.rawUser = next.rawUser /\ curr.endLine + 1 = next.line

\* The for loop of consolidateAllMarkers; arr is the local sorted array,
\* i its (1-based) index.
RECURSIVE ConsolidateLoop(_, _, _)
ConsolidateLoop(pm, arr, i) ==
    IF i > Len(arr) - 1 THEN pm
    ELSE LET curr == arr[i]
             next == arr[i + 1]
         IN IF TouchingSameUser(curr, next)
            THEN ConsolidateLoop(
                    updateMarkerRange(MapDelete(pm, next.line), curr, curr.line, next.endLine),
                    [j \in 1..(Len(arr) - 1) |->
                        IF j < i THEN arr[j]
                        ELSE IF j = i THEN [curr EXCEPT !.endLine = next.endLine]
                        ELSE arr[j + 1]],
                    i)
            ELSE ConsolidateLoop(pm, arr, i + 1)

\* Variant: the early return of the pass taken one marker too soon.
consolidateFromThree(pm) ==
    IF Len(pm) < 3 THEN pm ELSE ConsolidateLoop(pm, SortByLine(pm), 1)

consolidateAllMarkers(pm) ==
    IF Len(pm) < 2 THEN pm ELSE ConsolidateLoop(pm, SortByLine(pm), 1)

\* Variants: the adjacency tests of show without their "+ 1".
CaseBottomOffByOne(ex, currentStart, currentEnd) == ex.endLine = currentStart
CaseTopOffByOne(ex, currentStart, currentEnd) == currentEnd = ex.line

\* The three merge cases of show, for one existing marker.
CaseBottom(ex, currentStart, currentEnd) == ex.endLine + 1 = currentStart
CaseTop(ex, currentStart, currentEnd) == currentEnd + 1 = ex.line
CaseOverlap(ex, currentStart, currentEnd) ==
    \/ (currentStart >= ex.line /\ currentStart <= ex.endLine)
    \/ (currentEnd >= ex.line /\ currentEnd <= ex.endLine)

MergeCandidate(ex, userName, changeType, currentStart, currentEnd) ==
    /\ ex.rawUser = userName
    /\ ex.changeType = changeType
    /\ \/ CaseBottom(ex, currentStart, currentEnd)
       \/ CaseTop(ex, currentStart, currentEnd)
       \/ CaseOverlap(ex, currentStart, currentEnd)

MergeInto(pm, ex, currentStart, currentEnd) ==
    IF CaseBottom(ex, currentStart, currentEnd)
    THEN updateMarkerRange(pm, ex, ex.line, currentEnd)
    ELSE IF CaseTop(ex, currentStart, currentEnd)
    THEN updateMarkerRange(pm, ex, currentStart, ex.endLine)
    ELSE updateMarkerRange(pm, ex, Min(ex.line, currentStart), Max(ex.endLine, currentEnd))

\* Marker.show(lineNumber, userName, true, changeType, endLine)
show(pm, lineNumber, userName, changeType, endLine) ==
    IF lineNumber < 1 THEN pm
    ELSE LET currentStart == lineNumber
             currentEnd == IF endLine # NoEndLine THEN endLine ELSE lineNumber
             hits == {i \in 1..Len(pm) :
                        MergeCandidate(pm[i], userName, changeType, currentStart, currentEnd)}
         IN IF hits # {}
            THEN LET first == CHOOSE i \in hits : \A j \in hits : i <= j
                 IN consolidateAllMarkers(MergeInto(pm, pm[first], currentStart, currentEnd))
            ELSE MapSet(pm, currentStart,
                        [line |-> currentStart, endLine |-> currentEnd,
                         rawUser |-> userName, changeType |-> changeType])

\* Variant: the ranges stay tracked.
clearPersistentMarkersKeeping(pm) ==
    pm

\* Marker.clearPersistentMarkers()
clearPersistentMarkers(pm) ==
    << >>

\* Marker.adjustByContent(oldLines, newLines): "a no-op or simple position
\* update"; updatePosition redraws every marker at the line it already has.
adjustByContent(pm, oldLines, newLines) == pm

\* ------------------------------------------------------------- initial state
Buffers == UNION {[1..n -> LineText] : n \in 1..MaxBufferLines}
\* oldContent.split('\n') / newContent.split('\n') of a content change
AdjustLines == UNION {[1..n -> LineText] : n \in 1..MaxAdjustLines}

NoResult == [isRange |-> FALSE, startLine |-> 0, endLine |-> 0]
NoWarning == [hasConflict |-> FALSE, conflictingUser |-> "", timestamp |-> 0]
\* split has not returned yet / returned null
NoSplit == [done |-> FALSE]
NoCall == [called |-> FALSE]
\* What setTimeout is called for, and the timers left out of the state: a
\* specification follows the timers of the reasons in `tracked`. The
\* callbacks of the other reasons write nothing the specification holds.
TimerReasons == {"consolidate", "positions", "pulled"}
NoTimers == [tracked |-> {}, pending |-> << >>]
\* content: null
Null == << >>
EmptyRepository == [content |-> Null, changes |-> << >>, uncommittedBlocks |-> << >>]
NoLog == [event |-> "none", side |-> "A"]
Never == 0 - 1
NoBurst == [kind |-> "none", start |-> 0, len |-> 0]
EmptyMap == [k \in {} |-> 0]

\* The state of the hook and its components after construction, the
\* editors holding texts of `texts`.
Constructed(texts) ==
    /\ icons = << >>
    /\ persistentMarkers = [s \in Side |-> << >>]
    /\ changes = [s \in Side |-> EmptyMap]
    /\ reservations = [s \in Side |-> EmptyMap]
    /\ recentAdditions = [s \in Side |-> << >>]
    /\ recentEdits = [s \in Side |-> << >>]
    /\ baselineContent \in [Side -> texts]
    /\ content = baselineContent
    /\ gitRepository = [s \in Side |-> EmptyRepository]
    /\ logged = NoLog
    /\ nSyncs = 0
    /\ rangeResult = NoResult
    /\ now = 0
    /\ warned = NoWarning
    /\ uncommittedBlocks = [s \in Side |-> << >>]
    /\ changeBlocks = [s \in Side |-> << >>]
    /\ splitResult = NoSplit
    /\ groupedFrom = << >>
    /\ lastEdit = [s \in Side |-> [k \in ChangeTypes |-> Never]]
    /\ burst = [s \in Side |-> NoBurst]
    /\ nEvents = 0

ProgramInit == Constructed(Buffers)

Init ==
    /\ ProgramInit
    /\ mergeCall = NoCall
    /\ timers = NoTimers

\* ------------------------------------------- a Marker driven on its own
\* markerA called directly, with any author and change type.
systemVars == <<changes, reservations, recentAdditions, recentEdits,
                baselineContent, rangeResult, now, warned, blockVars, callVars, timers,
                repoVars, lastEdit, burst, nEvents>>

MarkerInit ==
    /\ Init
    /\ baselineContent = [s \in Side |-> << "" >>]

MarkerShow(lineNumber, userName, changeType, endLine) ==
    /\ persistentMarkers' =
          [persistentMarkers EXCEPT
              !["A"] = show(@, lineNumber, userName, changeType, endLine)]
    /\ UNCHANGED systemVars

MarkerConsolidate ==
    /\ persistentMarkers' =
          [persistentMarkers EXCEPT !["A"] = consolidateAllMarkers(@)]
    /\ UNCHANGED systemVars

MarkerClear ==
    /\ persistentMarkers["A"] # << >>
    /\ persistentMarkers' =
          [persistentMarkers EXCEPT !["A"] = clearPersistentMarkers(@)]
    /\ UNCHANGED systemVars

MarkerAdjust(oldLines, newLines) ==
    /\ persistentMarkers' =
          [persistentMarkers EXCEPT !["A"] = adjustByContent(@, oldLines, newLines)]
    /\ UNCHANGED systemVars

MarkerNext ==
    \/ \E lineNumber \in 0..MaxLine, userName \in Users, changeType \in ChangeTypes :
         \E endLine \in {NoEndLine} \cup lineNumber..MaxLine :
            MarkerShow(lineNumber, userName, changeType, endLine)
    \/ MarkerConsolidate
    \/ MarkerClear
    \/ \E oldLines, newLines \in AdjustLines : MarkerAdjust(oldLines, newLines)

MarkerSpec == MarkerInit /\ [][MarkerNext]_vars

\* ------------------------------------------------- properties of Marker
tracked == persistentMarkers["A"]

AnnotationRange(start, end, userName, changeType) ==
    [line |-> start, endLine |-> end, rawUser |-> userName, changeType |-> changeType]

SameOwner(a, b) == a.rawUser = b.rawUser /\ a.changeType = b.changeType
Touching(a, b) == a.line <= b.endLine + 1 /\ b.line <= a.endLine + 1

\* No two ranges of one (author, changeKind) overlap or are adjacent.
Minimal(pm) ==
    \A i, j \in 1..Len(pm) :
        (i # j /\ SameOwner(pm[i], pm[j])) => ~Touching(pm[i], pm[j])

\* The (start, end, author, changeKind) tuples of a range set.
Tuples(pm) == Range(pm)

\* The lines a show call contributes.
CandidateLines(lineNumber, endLine) ==
    IF lineNumber < 1 THEN {}
    ELSE lineNumber..(IF endLine # NoEndLine THEN endLine ELSE lineNumber)

\* The lines covered by the ranges of an author, and of an (author, kind).
CoveredByUser(pm, userName) ==
    UNION {m.line..m.endLine : m \in {x \in Range(pm) : x.rawUser = userName}}

CoveredByOwner(pm, userName, changeType) ==
    UNION {m.line..m.endLine :
             m \in {x \in Range(pm) : x.rawUser = userName /\ x.changeType = changeType}}

\* The endLine arguments that denote the candidate [start, end].
EndArgs(start, end) == {end} \cup (IF start = end THEN {NoEndLine} ELSE {})

\* C1: after any sequence of show calls, no two tracked ranges of the same
\* (author, changeKind) overlap or are adjacent.
C1_DisjointNonAdjacent == Minimal(tracked)

\* C3: ranges of one author and different change kinds are never merged: a
\* show call makes the ranges of an (author, kind) cover no line beyond those
\* they covered before and, when the call is of that author and kind, the
\* lines of its candidate.
C3_KindsNeverMerged ==
    [][\A lineNumber \in 0..MaxLine, userName \in Users, changeType \in ChangeTypes,
         endLine \in 0..MaxLine :
          MarkerShow(lineNumber, userName, changeType, endLine) =>
            \A u \in Users, k \in ChangeTypes :
                CoveredByOwner(tracked', u, k) \subseteq
                    CoveredByOwner(tracked, u, k) \cup
                    (IF u = userName /\ k = changeType
                     THEN CandidateLines(lineNumber, endLine) ELSE {})]_vars

\* C4: ranges of different authors are never merged: a show call (and the
\* consolidation pass) makes the ranges of an author cover no line beyond
\* those they covered before and, when the call is that author's, the lines
\* of its candidate.
C4_AuthorsNeverMerged ==
    [][/\ \A lineNumber \in 0..MaxLine, userName \in Users, changeType \in ChangeTypes,
            endLine \in 0..MaxLine :
             MarkerShow(lineNumber, userName, changeType, endLine) =>
               \A u \in Users :
                   CoveredByUser(tracked', u) \subseteq
                       CoveredByUser(tracked, u) \cup
                       (IF u = userName THEN CandidateLines(lineNumber, endLine) ELSE {})
       /\ MarkerConsolidate =>
            \A u \in Users : CoveredByUser(tracked', u) \subseteq CoveredByUser(tracked, u)]_vars

\* C4 witness: [1,2] of one author and the adjacent range of the other
\* author are both tracked.
C4_Witness ==
    \E i, j \in 1..Len(tracked) :
        /\ tracked[i].rawUser # tracked[j].rawUser
        /\ tracked[i].line = 1 /\ tracked[i].endLine = 2
        /\ tracked[j].line = 3

\* C5: bridging: with exactly [a,b] and [b+2,c] of one author and kind
\* tracked (in either order of creation), show of line b+1 with that author
\* and kind leaves exactly the one range [a,c].
C5_Bridging ==
    [][\A a, b, c \in 1..MaxLine, u \in Users, k \in ChangeTypes :
          (/\ a <= b /\ c >= b + 2
           /\ Len(tracked) = 2
           /\ Tuples(tracked) = {AnnotationRange(a, b, u, k), AnnotationRange(b + 2, c, u, k)}
           /\ \E endLine \in EndArgs(b + 1, b + 1) : MarkerShow(b + 1, u, k, endLine))
          => tracked' = << AnnotationRange(a, c, u, k) >>]_vars

\* C5 witness: exactly two ranges of one author and kind, one line apart, in
\* each of the two orders of creation.
C5_Witness ==
    /\ Len(tracked) = 2
    /\ SameOwner(tracked[1], tracked[2])
    /\ tracked[2].endLine + 2 = tracked[1].line

\* C6: adjacency closure: from an empty Marker, show(R1) then show(R2), and
\* show(R2) then show(R1), for R1 = [a,b] and R2 = [b+1,c] of one author and
\* kind, both end with exactly the one range [a,c].
C6_AdjacencyClosure ==
    [][\A a, b, c \in 1..MaxLine, u \in Users, k \in ChangeTypes :
          (a <= b /\ b + 1 <= c) =>
            /\ (/\ tracked = << >>
                /\ \E endLine \in EndArgs(a, b) : MarkerShow(a, u, k, endLine))
               => tracked' = << AnnotationRange(a, b, u, k) >>
            /\ (/\ tracked = << >>
                /\ \E endLine \in EndArgs(b + 1, c) : MarkerShow(b + 1, u, k, endLine))
               => tracked' = << AnnotationRange(b + 1, c, u, k) >>
            /\ (/\ tracked = << AnnotationRange(a, b, u, k) >>
                /\ \E endLine \in EndArgs(b + 1, c) : MarkerShow(b + 1, u, k, endLine))
               => tracked' = << AnnotationRange(a, c, u, k) >>
            /\ (/\ tracked = << AnnotationRange(b + 1, c, u, k) >>
                /\ \E endLine \in EndArgs(a, b) : MarkerShow(a, u, k, endLine))
               => tracked' = << AnnotationRange(a, c, u, k) >>]_vars

\* C6 witness: the Marker tracks R2 = [b+1,c] alone, with room for R1 above.
C6_Witness ==
    /\ Len(tracked) = 1
    /\ tracked[1].line > 1
    /\ tracked[1].endLine > tracked[1].line

\* C7: consolidateAllMarkers leaves an already minimal range set identical,
\* and running it twice gives the same set as running it once.
C7_ConsolidationIdempotent ==
    [][MarkerConsolidate =>
          /\ Minimal(tracked) => Tuples(tracked') = Tuples(tracked)
          /\ Tuples(consolidateAllMarkers(tracked')) = Tuples(tracked')]_vars

\* ============================================ useRealTimeCollaboration.js
Truthy(buffer) == buffer # << "" >>

\* lines[line - 1] || ''
LineAt(buffer, line) ==
    IF line >= 1 /\ line <= Len(buffer) THEN buffer[line] ELSE ""

MapPut(map, k, v) == [x \in DOMAIN map \cup {k} |-> IF x = k THEN v ELSE map[x]]

\* checkOverlap(lineNumber, userName, reservations)
checkOverlap(lineNumber, userName, res) ==
    IF lineNumber \in DOMAIN res /\ res[lineNumber].userName # userName
    THEN [hasConflict |-> TRUE, conflictingUser |-> res[lineNumber].userName,
          timestamp |-> res[lineNumber].timestamp]
    ELSE NoWarning

\* reserveTerritory(lineNumber, userName, reservations) at Date.now() = t
reserveTerritory(res, lineNumber, userName, t) ==
    MapPut(res, lineNumber, [userName |-> userName, timestamp |-> t])

\* for (line = rangeStart; line <= rangeEnd; line++) reserveTerritory(...)
reserveRange(res, rangeStart, rangeEnd, userName, t) ==
    [x \in DOMAIN res \cup (rangeStart..rangeEnd) |->
        IF x \in rangeStart..rangeEnd
        THEN [userName |-> userName, timestamp |-> t] ELSE res[x]]

\* Variant: the window filter with <= in place of <.
StillRecentInclusive(entry, t) == t - entry.timestamp <= BurstWindow

\* recent.push(entry); recent.filter(a => now - a.timestamp < 500)
StillRecent(entry, t) == t - entry.timestamp < BurstWindow

\* Variant: the window is never pruned.
PruneWindowKeepingAll(recent, entry, t) ==
    Append(recent, entry)

PruneWindow(recent, entry, t) ==
    SelectSeq(Append(recent, entry), LAMBDA a : StillRecent(a, t))

\* recent.sort((a, b) => a.line - b.line): a stable sort
InsertByLine(sorted, e) ==
    LET k == Cardinality({i \in 1..Len(sorted) : sorted[i].line <= e.line})
    IN SubSeq(sorted, 1, k) \o << e >> \o SubSeq(sorted, k + 1, Len(sorted))

RECURSIVE SortWindow(_)
SortWindow(recent) ==
    IF recent = << >> THEN << >>
    ELSE InsertByLine(SortWindow(SubSeq(recent, 1, Len(recent) - 1)), recent[Len(recent)])

\* The loop collecting `consecutive`: the longest prefix of the sorted
\* window in which every line is the one before plus one.
ConsecutiveRun(sorted) ==
    LET n == CHOOSE m \in 1..Len(sorted) :
                /\ \A i \in 2..m : sorted[i].line = sorted[i - 1].line + 1
                /\ m = Len(sorted) \/ sorted[m + 1].line # sorted[m].line + 1
    IN SubSeq(sorted, 1, n)

\* Variant: a range needs a run of three lines.
FormsRangeOfThree(recent) ==
    /\ Len(recent) > 1
    /\ Len(ConsecutiveRun(SortWindow(recent))) >= 3

\* recent.length > 1 and consecutive.length >= 2 && rangeEnd > rangeStart
FormsRange(recent) ==
    /\ Len(recent) > 1
    /\ LET consecutive == ConsecutiveRun(SortWindow(recent))
       IN Len(consecutive) >= 2
          /\ consecutive[Len(consecutive)].line > consecutive[1].line

\* consecutive.forEach(e => changes.set(e.line, {changeType, ..., timestamp: e.timestamp}))
TrackRange(map, consecutive, userName, changeType) ==
    LET newLines == {consecutive[i].line : i \in 1..Len(consecutive)}
        entryOf(l) == CHOOSE e \in Range(consecutive) : e.line = l
    IN [x \in DOMAIN map \cup newLines |->
          IF x \in newLines
          THEN [changeType |-> changeType, userName |-> userName, lineNumber |-> x,
                lineContent |-> entryOf(x).content, timestamp |-> entryOf(x).timestamp]
          ELSE map[x]]

\* "Remove individual markers in the range" of detectRangeEdit
RemoveKeys(pm, rangeStart, rangeEnd) ==
    SelectSeq(pm, LAMBDA m : ~(m.line \in rangeStart..rangeEnd))

\* baselineContent && baselineLines.length > 0 && currentLine <= baselineLines.length
isInsertionBetween(baseline, currentLine) ==
    Truthy(baseline) /\ Len(baseline) > 0 /\ currentLine <= Len(baseline)

\* History of the run of consecutive-line events of one side (not program state).
BurstAfter(s, changeType, line, window) ==
    IF /\ burst[s].kind = changeType
       /\ line = burst[s].start + burst[s].len
       /\ lastEdit[s][changeType] # Never
       /\ now - lastEdit[s][changeType] < BurstWindow
    THEN [burst[s] EXCEPT !.len = @ + 1]
    ELSE IF /\ line >= 1
            /\ persistentMarkers[s] = << >>
            /\ \A i \in 1..Len(window) : ~StillRecent(window[i], now)
    THEN [kind |-> changeType, start |-> line, len |-> 1]
    ELSE NoBurst

History(s, changeType, line, window) ==
    /\ nEvents < MaxEvents
    /\ nEvents' = nEvents + 1
    /\ lastEdit' = [lastEdit EXCEPT ![s][changeType] = now]
    /\ burst' = [burst EXCEPT ![s] = BurstAfter(s, changeType, line, window)]

\* setTimeout(callback, delay) of the handlers: one more pending timer every
\* call, none cancelled. A timer is its callback and the time it is due.
\* Where the timers are left out of the state, a call changes nothing.
ConsolidateDelay == 100
PositionsDelay == 50

TimerRoom(reason) == reason \in timers.tracked => Len(timers.pending) < MaxTimers

setTimeout(callback, delay) ==
    /\ TimerRoom(callback.reason)
    /\ timers' = IF callback.reason \in timers.tracked
                 THEN [timers EXCEPT
                          !.pending = Append(@, [callback |-> callback, due |-> now + delay])]
                 ELSE timers

\* newLines.findIndex(line => line === text) + 1; 0 when there is no match
FirstMatch(newLines, text) ==
    IF \E i \in 1..Len(newLines) : newLines[i] = text
    THEN CHOOSE i \in 1..Len(newLines) :
            newLines[i] = text /\ \A j \in 1..(i - 1) : newLines[j] # text
    ELSE 0

\* Variant: a moved block keeps its end line.
blocksAdjustStartOnly(blocks, oldLines, newLines) ==
    [i \in 1..Len(blocks) |->
        LET blockData == blocks[i]
            newStartLine == IF blockData.changes = << >> THEN 0
                            ELSE FirstMatch(newLines, blockData.changes[1])
        IN IF newStartLine # 0
           THEN [blockData EXCEPT !.startLine = newStartLine]
           ELSE blockData]

\* ChangeBlock.adjustByContent(oldLines, newLines): a block whose first
\* change is found in newLines moves to the first line that equals it.
blocksAdjustByContent(blocks, oldLines, newLines) ==
    [i \in 1..Len(blocks) |->
        LET blockData == blocks[i]
            newStartLine == IF blockData.changes = << >> THEN 0
                            ELSE FirstMatch(newLines, blockData.changes[1])
        IN IF newStartLine # 0
           THEN [blockData EXCEPT !.startLine = newStartLine,
                                  !.endLine = newStartLine + Len(blockData.changes) - 1]
           ELSE blockData]

\* adjustMarkersForContentChange(changeBlocksX, oldContent, newContent); the
\* same call on a marker redraws it where it is.
adjustMarkersForContentChange(blocks, oldContent, newContent) ==
    IF ~Truthy(oldContent) \/ ~Truthy(newContent) THEN blocks
    ELSE blocksAdjustByContent(blocks, oldContent, newContent)

\* "Adjust other user's markers" at the end of an edit handler of side s
AdjustOther(s, oldContent, newContent) ==
    /\ changeBlocks' = [changeBlocks EXCEPT
           ![Other(s)] = adjustMarkersForContentChange(@, oldContent, newContent)]
    /\ UNCHANGED <<uncommittedBlocks, splitResult, groupedFrom>>

\* Reserve territory, track change, show marker.
RecordSingle(s, line, text, changeType) ==
    /\ reservations' = [reservations EXCEPT
                           ![s] = reserveTerritory(@, line, UserName(s), now)]
    /\ changes' = [changes EXCEPT
                      ![s] = MapPut(@, line,
                                [changeType |-> changeType, userName |-> UserName(s),
                                 lineNumber |-> line, lineContent |-> LineAt(text, line),
                                 timestamp |-> now])]
    /\ persistentMarkers' = [persistentMarkers EXCEPT
                      ![s] = show(@, line, UserName(s), changeType, NoEndLine)]

\* Variant: an edit of a line the other side has reserved is turned away.
SingleLineBlocking(s, line, text, changeType) ==
    LET overlap == checkOverlap(line, UserName(s), reservations[Other(s)])
    IN /\ warned' = overlap
       /\ IF overlap.hasConflict
          THEN UNCHANGED <<reservations, changes, persistentMarkers>>
          ELSE RecordSingle(s, line, text, changeType)

\* The single-line branch of onLineAdded / onLineEdited: the overlap check
\* only writes its warning to the console.
SingleLine(s, line, text, changeType) ==
    LET overlap == checkOverlap(line, UserName(s), reservations[Other(s)])
    IN /\ warned' = overlap
       /\ RecordSingle(s, line, text, changeType)

\* codeEditorX.onLineAdded(line), detectRangeInsertion included; text is what
\* codeEditorX.getContent() returns.
OnLineAdded(s, line, text) ==
    LET addition == [line |-> line, content |-> LineAt(text, line), timestamp |-> now]
        recent == PruneWindow(recentAdditions[s], addition, now)
        consecutive == ConsecutiveRun(SortWindow(recent))
        rangeStart == consecutive[1].line
        rangeEnd == consecutive[Len(consecutive)].line
    IN /\ History(s, "added", line, recentAdditions[s])
       /\ IF /\ FormsRange(recent)
             /\ isInsertionBetween(baselineContent[s], line)
             /\ rangeStart <= Len(baselineContent[s]) + 1
          THEN /\ reservations' = [reservations EXCEPT
                      ![s] = reserveRange(@, rangeStart, rangeEnd, UserName(s), now)]
               /\ changes' = [changes EXCEPT
                      ![s] = TrackRange(@, consecutive, UserName(s), "added")]
               /\ persistentMarkers' = [persistentMarkers EXCEPT
                      ![s] = show(@, rangeStart, UserName(s), "added", rangeEnd)]
               /\ recentAdditions' = [recentAdditions EXCEPT ![s] = << >>]
               /\ rangeResult' = [isRange |-> TRUE, startLine |-> rangeStart,
                                  endLine |-> rangeEnd]
               /\ warned' = NoWarning
          ELSE /\ recentAdditions' = [recentAdditions EXCEPT ![s] = recent]
               /\ rangeResult' = NoResult
               /\ SingleLine(s, line, text, "added")
       /\ setTimeout([side |-> s, reason |-> "consolidate", changeType |-> "added"],
                     ConsolidateDelay)
       /\ content' = [content EXCEPT ![s] = text]
       /\ AdjustOther(s, baselineContent[Other(s)], text)
       /\ UNCHANGED <<recentEdits, baselineContent, now, callVars, gitRepository, logged, nSyncs>>

\* codeEditorX.onLineEdited(line), detectRangeEdit included.
OnLineEdited(s, line, text) ==
    LET edit == [line |-> line, content |-> LineAt(text, line), timestamp |-> now]
        recent == PruneWindow(recentEdits[s], edit, now)
        consecutive == ConsecutiveRun(SortWindow(recent))
        rangeStart == consecutive[1].line
        rangeEnd == consecutive[Len(consecutive)].line
    IN /\ History(s, "edited", line, recentEdits[s])
       /\ IF FormsRange(recent)
          THEN /\ reservations' = [reservations EXCEPT
                      ![s] = reserveRange(@, rangeStart, rangeEnd, UserName(s), now)]
               /\ changes' = [changes EXCEPT
                      ![s] = TrackRange(@, consecutive, UserName(s), "edited")]
               /\ persistentMarkers' = [persistentMarkers EXCEPT
                      ![s] = show(RemoveKeys(@, rangeStart, rangeEnd),
                                  rangeStart, UserName(s), "edited", rangeEnd)]
               /\ recentEdits' = [recentEdits EXCEPT ![s] = << >>]
               /\ rangeResult' = [isRange |-> TRUE, startLine |-> rangeStart,
                                  endLine |-> rangeEnd]
               /\ warned' = NoWarning
          ELSE /\ recentEdits' = [recentEdits EXCEPT ![s] = recent]
               /\ rangeResult' = NoResult
               /\ SingleLine(s, line, text, "edited")
       /\ setTimeout([side |-> s, reason |-> "consolidate", changeType |-> "edited"],
                     ConsolidateDelay)
       /\ content' = [content EXCEPT ![s] = text]
       /\ AdjustOther(s, baselineContent[Other(s)], text)
       /\ UNCHANGED <<recentAdditions, baselineContent, now, callVars, gitRepository,
                      logged, nSyncs>>

\* codeEditorX.onContentChange()
OnContentChange(s, text) ==
    /\ AdjustOther(s, baselineContent[s], text)
    /\ baselineContent' = [baselineContent EXCEPT ![s] = text]
    /\ content' = [content EXCEPT ![s] = text]
    /\ setTimeout([side |-> s, reason |-> "positions"], PositionsDelay)
    /\ UNCHANGED <<persistentMarkers, changes, reservations, recentAdditions,
                   recentEdits, rangeResult, now, warned, callVars,
                   gitRepository, logged, nSyncs, lastEdit, burst, nEvents>>

\* Time passes between two events.
Tick(d) ==
    /\ now + d <= MaxTime
    /\ now' = now + d
    /\ UNCHANGED <<persistentMarkers, changes, reservations, recentAdditions,
                   recentEdits, baselineContent, rangeResult, warned, blockVars, callVars,
                   timers, repoVars, lastEdit, burst, nEvents>>

EditLines == 1..MaxLine

EditNext ==
    \/ \E s \in Side, line \in EditLines, text \in Buffers : OnLineAdded(s, line, text)
    \/ \E s \in Side, line \in EditLines, text \in Buffers : OnLineEdited(s, line, text)
    \/ \E s \in Side, text \in Buffers : OnContentChange(s, text)
    \/ \E d \in TickSteps : Tick(d)

EditSpec == Init /\ [][EditNext]_vars

\* ------------------------------------------ properties of the edit events
\* The (line, changeKind) pairs covered by a side's marker ranges, and those
\* of the facts in its store.
MarkerPairs(s) ==
    UNION {{<<l, m.changeType>> : l \in m.line..m.endLine} : m \in Range(persistentMarkers[s])}

FactPairs(s) == {<<l, changes[s][l].changeType>> : l \in DOMAIN changes[s]}

\* C2: between events, each side's annotation ranges cover exactly the
\* (line, changeKind) pairs of the facts in that side's store.
C2_RangesReproducible == \A s \in Side : MarkerPairs(s) = FactPairs(s)

\* C8: k >= 2 edit events of one side and kind on consecutive lines n..n+k-1,
\* each within the window of the one before, begun with no annotation and no
\* unexpired window entry, leave exactly the one range [n, n+k-1].
C8_BurstYieldsOneRange ==
    \A s \in Side :
        burst[s].len >= 2 =>
            persistentMarkers[s] =
                << AnnotationRange(burst[s].start, burst[s].start + burst[s].len - 1,
                                   UserName(s), burst[s].kind) >>

\* C8 witness: a burst of three edits, the second of them reported as a range.
C8_Witness ==
    \E s \in Side :
        /\ burst[s].len = 3
        /\ burst[s].kind = "edited"
        /\ Len(recentEdits[s]) = 1

\* An event of this kind on this side comes a whole window or more after the
\* one before it.
Isolated(s, changeType) ==
    lastEdit[s][changeType] = Never \/ now - lastEdit[s][changeType] >= BurstWindow

SingleFact(s, line, text, changeType) ==
    [changeType |-> changeType, userName |-> UserName(s), lineNumber |-> line,
     lineContent |-> LineAt(text, line), timestamp |-> now]

\* C9: an edit event a whole window or more after the previous event of its
\* kind on its side is never reported as a range, and records exactly one
\* fact, for its own line.
C9_IsolatedNeverFused ==
    [][\A s \in Side, line \in EditLines, text \in Buffers :
          /\ (Isolated(s, "added") /\ OnLineAdded(s, line, text)) =>
                /\ rangeResult'.isRange = FALSE
                /\ changes'[s] = MapPut(changes[s], line, SingleFact(s, line, text, "added"))
          /\ (Isolated(s, "edited") /\ OnLineEdited(s, line, text)) =>
                /\ rangeResult'.isRange = FALSE
                /\ changes'[s] = MapPut(changes[s], line, SingleFact(s, line, text, "edited"))]_vars

\* C9 witness: lines 1 and 2 edited a whole window apart, each with its own
\* fact, the second event not reported as a range.
C9_Witness ==
    \E s \in Side :
        /\ DOMAIN changes[s] = {1, 2}
        /\ changes[s][1].changeType = "edited" /\ changes[s][1].timestamp = 0
        /\ changes[s][2].changeType = "edited" /\ changes[s][2].timestamp = BurstWindow
        /\ lastEdit[s]["edited"] = BurstWindow
        /\ rangeResult.isRange = FALSE

\* C10: a fact is only ever replaced by a later one: the fact of a line stays
\* in the store and its timestamp never goes back.
C10_LaterFactReplacesEarlier ==
    [][\A s \in Side : \A l \in DOMAIN changes[s] :
          /\ l \in DOMAIN changes'[s]
          /\ changes'[s][l].timestamp >= changes[s][l].timestamp]_vars

\* ------------------------------------- the handlers called with any line
\* onLineAdded / onLineEdited as the functions the editor is handed: the
\* line argument is whatever the caller passes, 0 included.
HandlerLines == 0..MaxLine

HandlerNext ==
    \/ \E s \in Side, line \in HandlerLines, text \in Buffers : OnLineAdded(s, line, text)
    \/ \E s \in Side, line \in HandlerLines, text \in Buffers : OnLineEdited(s, line, text)
    \/ \E s \in Side, text \in Buffers : OnContentChange(s, text)
    \/ \E d \in TickSteps : Tick(d)

HandlerSpec == Init /\ [][HandlerNext]_vars

\* The state of one side an edit event may write.
SideState(s) ==
    <<changes[s], reservations[s], recentAdditions[s], recentEdits[s], persistentMarkers[s]>>

\* C11: an edit event with a line number below 1 leaves the side's fact
\* store, reservation ledger, burst windows and annotation ranges unchanged.
C11_LineBelowOneIsNoOp ==
    [][\A s \in Side, line \in HandlerLines, text \in Buffers :
          (line < 1 /\ (OnLineAdded(s, line, text) \/ OnLineEdited(s, line, text)))
            => SideState(s)' = SideState(s)]_vars

\* C12: the reservation check is advisory: an edit event recorded as a single
\* line, a conflict with the other side's reservation reported or not,
\* writes the fact, the editor's own reservation and the annotation range
\* that the side's own state, the line and the text determine.
C12_ReservationCheckAdvisory ==
    [][\A s \in Side, line \in EditLines, text \in Buffers, k \in ChangeTypes :
          (/\ \/ k = "added" /\ OnLineAdded(s, line, text)
              \/ k = "edited" /\ OnLineEdited(s, line, text)
           /\ rangeResult'.isRange = FALSE)
          => /\ changes'[s] = MapPut(changes[s], line, SingleFact(s, line, text, k))
             /\ reservations'[s] =
                    MapPut(reservations[s], line, [userName |-> UserName(s), timestamp |-> now])
             /\ persistentMarkers'[s] = show(persistentMarkers[s], line, UserName(s), k, NoEndLine)
             /\ UNCHANGED <<changes[Other(s)], reservations[Other(s)],
                            persistentMarkers[Other(s)]>>]_vars

\* C12 witness: an edit event reported a conflict with the other side's
\* reservation and the line now carries the editor's fact and reservation.
C12_Witness ==
    \E s \in Side, line \in EditLines :
        /\ warned.hasConflict
        /\ warned.conflictingUser = UserName(Other(s))
        /\ line \in DOMAIN reservations[Other(s)]
        /\ line \in DOMAIN reservations[s]
        /\ reservations[s][line].timestamp = now
        /\ line \in DOMAIN changes[s]
        /\ changes[s][line].timestamp = now

\* ===================================================== createChangeBlocks
\* [...changes].sort((a, b) => a.lineNumber - b.lineNumber): a stable sort
InsertByLineNumber(sorted, c) ==
    LET k == Cardinality({i \in 1..Len(sorted) : sorted[i].lineNumber <= c.lineNumber})
    IN SubSeq(sorted, 1, k) \o << c >> \o SubSeq(sorted, k + 1, Len(sorted))

RECURSIVE SortChanges(_)
SortChanges(changesArr) ==
    IF changesArr = << >> THEN << >>
    ELSE InsertByLineNumber(SortChanges(SubSeq(changesArr, 1, Len(changesArr) - 1)),
                            changesArr[Len(changesArr)])

\* `${userName}-block-${Date.now()}-${blocks.length}`, and the -part1 /
\* -part2 suffixes split appends
BlockId(userName, t, n) == [userName |-> userName, time |-> t, index |-> n, part |-> << >>]
PartId(blockId, n) == [blockId EXCEPT !.part = Append(@, n)]

NewBlock(change, userName, t, n) ==
    [blockId |-> BlockId(userName, t, n),
     startLine |-> change.lineNumber, endLine |-> change.lineNumber,
     changes |-> << change.lineContent >>, changeType |-> change.changeType]

\* Variant: a gap in the line numbers does not start a new block.
ConsecutiveOrLater(currentBlock, change) ==
    change.lineNumber >= currentBlock.endLine + 1

\* change.lineNumber === currentBlock.endLine + 1
Consecutive(currentBlock, change) ==
    change.lineNumber = currentBlock.endLine + 1

\* Variant: "Keep the first changeType" for a mixed block.
ExtendBlockKeepFirst(currentBlock, change) ==
    [currentBlock EXCEPT !.endLine = change.lineNumber,
                         !.changes = Append(@, change.lineContent)]

\* "Consecutive line - consolidate regardless of changeType"
ExtendBlock(currentBlock, change) ==
    [currentBlock EXCEPT !.endLine = change.lineNumber,
                         !.changes = Append(@, change.lineContent),
                         !.changeType = IF @ # change.changeType THEN "edited" ELSE @]

\* sortedChanges.forEach from its second element on, then the final push.
RECURSIVE GroupLoop(_, _, _, _, _, _)
GroupLoop(sorted, i, blocks, currentBlock, userName, t) ==
    IF i > Len(sorted) THEN Append(blocks, currentBlock)
    ELSE IF Consecutive(currentBlock, sorted[i])
    THEN GroupLoop(sorted, i + 1, blocks, ExtendBlock(currentBlock, sorted[i]), userName, t)
    ELSE GroupLoop(sorted, i + 1, Append(blocks, currentBlock),
                   NewBlock(sorted[i], userName, t, Len(blocks) + 1), userName, t)

\* createChangeBlocks(changes, userName) at Date.now() = t
createChangeBlocks(changesArr, userName, t) ==
    IF Len(changesArr) = 0 THEN << >>
    ELSE LET sorted == SortChanges(changesArr)
         IN GroupLoop(sorted, 2, << >>, NewBlock(sorted[1], userName, t, 0), userName, t)

\* ========================================================= ChangeBlock.js
\* this.blocks: a Map from blockId to block data, as the sequence of its
\* values in insertion order, each carrying its key.
BlockHas(blocks, blockId) == \E i \in 1..Len(blocks) : blocks[i].blockId = blockId
BlockGet(blocks, blockId) == CHOOSE b \in Range(blocks) : b.blockId = blockId

\* ChangeBlock.remove(blockId)
remove(blocks, blockId) == SelectSeq(blocks, LAMBDA b : b.blockId # blockId)

\* ChangeBlock.create(blockId, startLine, endLine, userName, changes, changeType)
create(blocks, blockId, startLine, endLine, userName, changesOf, changeType) ==
    Append(remove(blocks, blockId),
           [blockId |-> blockId, startLine |-> startLine, endLine |-> endLine,
            userName |-> userName, changes |-> changesOf, changeType |-> changeType])

\* Variant: clear leaves the blocks where they are.
clearKeeping(blocks) == blocks

\* ChangeBlock.clear()
clear(blocks) == << >>

\* Array.prototype.slice(from, to) with 0-based bounds inside the array
Slice(arr, from, to) == SubSeq(arr, Min(from, Len(arr)) + 1, Min(to, Len(arr)))

\* Variant: the split line may be the block's first or last line.
InvalidSplitOutside(blockData, splitLine) ==
    splitLine < blockData.startLine \/ splitLine > blockData.endLine

\* splitLine <= startLine || splitLine >= endLine
InvalidSplit(blockData, splitLine) ==
    splitLine <= blockData.startLine \/ splitLine >= blockData.endLine

\* The two create calls of split.
SplitParts(blocks, blockId, blockData, splitLine) ==
    LET relativeSplit == splitLine - blockData.startLine
        firstPartChanges == Slice(blockData.changes, 0, relativeSplit)
        secondPartChanges == Slice(blockData.changes, relativeSplit, Len(blockData.changes))
    IN create(create(blocks, PartId(blockId, 1), blockData.startLine, splitLine - 1,
                     blockData.userName, firstPartChanges, blockData.changeType),
              PartId(blockId, 2), splitLine, blockData.endLine,
              blockData.userName, secondPartChanges, blockData.changeType)

\* Variant: split without its "Remove original block".
splitKeepingOriginal(blocks, blockId, splitLine) ==
    IF ~BlockHas(blocks, blockId) THEN [blocks |-> blocks, result |-> NoSplit]
    ELSE IF InvalidSplit(BlockGet(blocks, blockId), splitLine)
    THEN [blocks |-> blocks, result |-> NoSplit]
    ELSE [blocks |-> SplitParts(blocks, blockId, BlockGet(blocks, blockId), splitLine),
          result |-> [done |-> TRUE, firstBlockId |-> PartId(blockId, 1),
                      secondBlockId |-> PartId(blockId, 2)]]

\* ChangeBlock.split(blockId, splitLine): the blocks afterwards and the
\* value returned (NoSplit for null).
split(blocks, blockId, splitLine) ==
    IF ~BlockHas(blocks, blockId) THEN [blocks |-> blocks, result |-> NoSplit]
    ELSE IF InvalidSplit(BlockGet(blocks, blockId), splitLine)
    THEN [blocks |-> blocks, result |-> NoSplit]
    ELSE [blocks |-> remove(SplitParts(blocks, blockId, BlockGet(blocks, blockId), splitLine),
                            blockId),
          result |-> [done |-> TRUE, firstBlockId |-> PartId(blockId, 1),
                      secondBlockId |-> PartId(blockId, 2)]]

\* ------------------------------------ a ChangeBlock driven on its own
\* changeBlocksB shown the blocks createChangeBlocks makes of User A's
\* facts, then split and cleared.
\* Array.from(changesA.values()): facts of distinct lines, in the order
\* their lines were first recorded.
LineOrders ==
    {o \in UNION {[1..n -> 1..MaxLine] : n \in 0..MaxLine} :
        \A i, j \in 1..Len(o) : i # j => o[i] # o[j]}

FactArrays ==
    {[i \in 1..Len(o) |->
        [changeType |-> k[o[i]], userName |-> "User A", lineNumber |-> o[i],
         lineContent |-> c[o[i]], timestamp |-> 0]] :
     o \in LineOrders, k \in [1..MaxLine -> ChangeTypes], c \in [1..MaxLine -> LineText]}

\* uncommittedBlocksA.forEach(block => changeBlocksB.create(...))
RECURSIVE CreateAll(_, _, _, _)
CreateAll(blocks, arr, i, userName) ==
    IF i > Len(arr) THEN blocks
    ELSE CreateAll(create(blocks, arr[i].blockId, arr[i].startLine, arr[i].endLine,
                          userName, arr[i].changes, arr[i].changeType),
                   arr, i + 1, userName)

blockSystemVars == <<persistentMarkers, changes, reservations, recentAdditions, recentEdits,
                     baselineContent, rangeResult, now, warned, callVars, timers,
                     repoVars, lastEdit, burst, nEvents>>

ShowBlocks(changesArr) ==
    LET blocksA == createChangeBlocks(changesArr, "User A", now)
    IN /\ uncommittedBlocks' = [uncommittedBlocks EXCEPT !["A"] = blocksA]
       /\ changeBlocks' = [changeBlocks EXCEPT
                              !["B"] = CreateAll(clear(@), blocksA, 1, "User A")]
       /\ groupedFrom' = changesArr
       /\ UNCHANGED <<splitResult, blockSystemVars>>

Split(blockId, splitLine) ==
    LET r == split(changeBlocks["B"], blockId, splitLine)
    IN /\ changeBlocks' = [changeBlocks EXCEPT !["B"] = r.blocks]
       /\ splitResult' = r.result
       /\ UNCHANGED <<uncommittedBlocks, groupedFrom, blockSystemVars>>

ClearBlocks ==
    /\ changeBlocks["B"] # << >>
    /\ changeBlocks' = [changeBlocks EXCEPT !["B"] = clear(@)]
    /\ UNCHANGED <<uncommittedBlocks, splitResult, groupedFrom, blockSystemVars>>

\* The ids split is called with: those of the blocks shown, and ids of the
\* same form, of which the last is never shown.
BlockIndexes == 0..((MaxLine + 1) \div 2)
SplitIds ==
    {changeBlocks["B"][i].blockId : i \in 1..Len(changeBlocks["B"])}
        \cup {BlockId("User A", now, n) : n \in BlockIndexes}
SplitLines == 0..(MaxLine + 1)

BlockNext ==
    \/ \E changesArr \in FactArrays : ShowBlocks(changesArr)
    \/ \E blockId \in SplitIds, splitLine \in SplitLines : Split(blockId, splitLine)
    \/ ClearBlocks

BlockSpec == MarkerInit /\ [][BlockNext]_vars

shown == changeBlocks["B"]

\* The lines of a fact array, and the fact of a line in it.
FactLines(changesArr) == {changesArr[i].lineNumber : i \in 1..Len(changesArr)}
FactOf(changesArr, l) == CHOOSE f \in Range(changesArr) : f.lineNumber = l

\* C13: createChangeBlocks groups facts of distinct lines into maximal
\* consecutive runs: the blocks ascend, are pairwise disjoint and
\* non-adjacent, their intervals cover exactly the fact lines, and each
\* block's contents are the facts' contents in ascending line order.
C13_BlocksAreMaximalRuns ==
    LET blocks == uncommittedBlocks["A"]
    IN /\ \A i \in 1..Len(blocks) : blocks[i].startLine <= blocks[i].endLine
       /\ \A i \in 1..(Len(blocks) - 1) : blocks[i + 1].startLine > blocks[i].endLine + 1
       /\ UNION {blocks[i].startLine..blocks[i].endLine : i \in 1..Len(blocks)}
             = FactLines(groupedFrom)
       /\ \A i \in 1..Len(blocks) :
             blocks[i].changes =
                [j \in 1..(blocks[i].endLine - blocks[i].startLine + 1) |->
                    FactOf(groupedFrom, blocks[i].startLine + j - 1).lineContent]

\* C13 witness: two facts recorded out of line order, the line between
\* them without a fact, grouped into two blocks.
C13_Witness ==
    /\ Len(groupedFrom) = 2
    /\ groupedFrom[1].lineNumber > groupedFrom[2].lineNumber + 1
    /\ Len(uncommittedBlocks["A"]) = 2
    /\ uncommittedBlocks["A"][1].startLine = groupedFrom[2].lineNumber

\* A run of a fact array: a maximal set of consecutive fact lines.
KindsOfRun(changesArr, startLine, endLine) ==
    {FactOf(changesArr, l).changeType : l \in startLine..endLine}

\* C14: a block's kind is added exactly when every fact of its run is added;
\* a run with both kinds and a run of edited facts only give kind edited.
C14_MixedRunIsEdited ==
    \A i \in 1..Len(uncommittedBlocks["A"]) :
        LET block == uncommittedBlocks["A"][i]
            kinds == KindsOfRun(groupedFrom, block.startLine, block.endLine)
        IN /\ block.changeType = "added" <=> kinds = {"added"}
           /\ block.changeType = "edited" <=> "edited" \in kinds

\* C14 witness: a run added, edited, added (by line) made one block.
C14_Witness ==
    /\ Len(uncommittedBlocks["A"]) = 1
    /\ Len(groupedFrom) = 3
    /\ FactOf(groupedFrom, 1).changeType = "added"
    /\ FactOf(groupedFrom, 2).changeType = "edited"
    /\ FactOf(groupedFrom, 3).changeType = "added"

ShownIds(blocks) == {blocks[i].blockId : i \in 1..Len(blocks)}

\* C15: split returns null and leaves the blocks as they were when the
\* block id is unknown, and when splitLine <= startLine or
\* splitLine >= endLine of the block.
C15_InvalidSplitFails ==
    [][\A blockId \in SplitIds, splitLine \in SplitLines :
          (/\ Split(blockId, splitLine)
           /\ \/ blockId \notin ShownIds(shown)
              \/ splitLine <= BlockGet(shown, blockId).startLine
              \/ splitLine >= BlockGet(shown, blockId).endLine)
          => /\ splitResult' = NoSplit
             /\ shown' = shown]_vars

\* C15 witness: a block of three lines or more is shown, the only kind of
\* block that has both splittable and unsplittable lines.
C15_Witness ==
    \E i \in 1..Len(shown) :
        /\ shown[i].endLine >= shown[i].startLine + 2
        /\ splitResult = NoSplit

\* C16: a valid split (startLine < splitLine < endLine) replaces the block
\* by exactly two blocks, [startLine, splitLine - 1] and [splitLine,
\* endLine], of the original author and kind, whose contents concatenated
\* are the original's; the original id is gone and the other blocks stay.
C16_ValidSplitPartitions ==
    [][\A blockId \in SplitIds, splitLine \in SplitLines :
          (/\ Split(blockId, splitLine)
           /\ blockId \in ShownIds(shown)
           /\ BlockGet(shown, blockId).startLine < splitLine
           /\ splitLine < BlockGet(shown, blockId).endLine)
          => LET block == BlockGet(shown, blockId)
                 parts == Range(shown') \ Range(shown)
             IN /\ blockId \notin ShownIds(shown')
                /\ Range(shown) \ Range(shown') = {block}
                /\ Len(shown') = Len(shown) + 1
                /\ \E first, second \in parts :
                      /\ parts = {first, second}
                      /\ first.startLine = block.startLine
                      /\ first.endLine = splitLine - 1
                      /\ second.startLine = splitLine
                      /\ second.endLine = block.endLine
                      /\ first.changes \o second.changes = block.changes
                      /\ first.userName = block.userName
                      /\ second.userName = block.userName
                      /\ first.changeType = block.changeType
                      /\ second.changeType = block.changeType
                      /\ splitResult' = [done |-> TRUE, firstBlockId |-> first.blockId,
                                         secondBlockId |-> second.blockId]]_vars

\* C16 witness: a block of lines 1 to 3 with different contents was split
\* at line 2 and its two parts are shown.
C16_Witness ==
    /\ splitResult.done
    /\ Len(shown) = 2
    /\ shown[1].blockId = splitResult.firstBlockId
    /\ shown[2].blockId = splitResult.secondBlockId
    /\ shown[1].endLine + 1 = shown[2].startLine
    /\ shown[1].changes # << shown[2].changes[1] >>

\* ============================================================== mergeCode
\* A text is the sequence of its characters; "\n" ends a line.
Chars == {"a", "b", "\n"}
Texts == UNION {[1..n -> Chars] : n \in 0..MaxChars}

\* String.prototype.split('\n')
RECURSIVE StrSplit(_)
StrSplit(str) ==
    IF \A i \in 1..Len(str) : str[i] # "\n" THEN << str >>
    ELSE LET i == CHOOSE k \in 1..Len(str) :
                    str[k] = "\n" /\ \A j \in 1..(k - 1) : str[j] # "\n"
         IN << SubSeq(str, 1, i - 1) >> \o StrSplit(SubSeq(str, i + 1, Len(str)))

\* Array.prototype.join('\n')
RECURSIVE StrJoin(_)
StrJoin(lines) ==
    IF Len(lines) = 0 THEN << >>
    ELSE IF Len(lines) = 1 THEN lines[1]
    ELSE lines[1] \o << "\n" >> \o StrJoin(Tail(lines))

\* Variant: where both texts have the line and differ, the target's is kept.
MergedLineTargetWins(targetLines, sourceLines, i) ==
    IF i <= Len(targetLines) THEN targetLines[i] ELSE sourceLines[i]

\* The body of the loop of mergeCode, for the (1-based) index i.
MergedLine(targetLines, sourceLines, i) ==
    IF i <= Len(targetLines) /\ i <= Len(sourceLines)
    THEN IF targetLines[i] # sourceLines[i] THEN sourceLines[i] ELSE targetLines[i]
    ELSE IF i <= Len(sourceLines) THEN sourceLines[i]
    ELSE targetLines[i]

\* mergeCode(targetContent, sourceContent)
mergeCode(targetContent, sourceContent) ==
    LET targetLines == StrSplit(targetContent)
        sourceLines == StrSplit(sourceContent)
        maxLines == Max(Len(targetLines), Len(sourceLines))
    IN StrJoin([i \in 1..maxLines |-> MergedLine(targetLines, sourceLines, i)])

\* ----------------------------------------------- mergeCode called on its own
mergeSystemVars == <<persistentMarkers, changes, reservations, recentAdditions, recentEdits,
                     baselineContent, rangeResult, now, warned, blockVars, timers,
                     repoVars, lastEdit, burst, nEvents>>

\* The arguments are drawn at the start; the call happens once.
MergeInit ==
    /\ ProgramInit
    /\ timers = NoTimers
    /\ baselineContent = [s \in Side |-> << "" >>]
    /\ mergeCall \in {[called |-> FALSE, target |-> targetContent,
                        source |-> sourceContent, merged |-> << >>] :
                          targetContent \in Texts, sourceContent \in Texts}

Merge ==
    /\ ~mergeCall.called
    /\ mergeCall' = [mergeCall EXCEPT
                        !.called = TRUE,
                        !.merged = mergeCode(mergeCall.target, mergeCall.source)]
    /\ UNCHANGED <<mergeSystemVars, icons>>

MergeNext == Merge

MergeSpec == MergeInit /\ [][MergeNext]_vars

\* C17: mergeCode is a positional merge: the result has max(|T|, |S|)
\* lines; a line both texts have is S's where they differ and the common
\* line where they agree; a line only one text has is that text's; and
\* mergeCode(T, T) = T.
C17_PositionalMerge ==
    mergeCall.called =>
        LET T == StrSplit(mergeCall.target)
            S == StrSplit(mergeCall.source)
            R == StrSplit(mergeCall.merged)
        IN /\ Len(R) = Max(Len(T), Len(S))
           /\ \A i \in 1..Len(R) :
                 /\ (i <= Len(T) /\ i <= Len(S) /\ T[i] # S[i]) => R[i] = S[i]
                 /\ (i <= Len(T) /\ i <= Len(S) /\ T[i] = S[i]) => R[i] = T[i]
                 /\ (i <= Len(T) /\ i > Len(S)) => R[i] = T[i]
                 /\ (i > Len(T) /\ i <= Len(S)) => R[i] = S[i]
           /\ mergeCall.target = mergeCall.source => mergeCall.merged = mergeCall.target

\* C17 witness: the target has two lines, the source one, and their first
\* lines differ.
C17_Witness ==
    /\ mergeCall.called
    /\ Len(StrSplit(mergeCall.target)) = 2
    /\ Len(StrSplit(mergeCall.source)) = 1
    /\ StrSplit(mergeCall.target)[1] # StrSplit(mergeCall.source)[1]
    /\ StrSplit(mergeCall.target)[1] # << >>

\* ------------------------------------------- re-anchoring on content change
\* C18: after adjustByContent(oldLines, newLines) a marker whose line's old
\* text is found in newLines is at the index of the first exact match (its
\* author and kind kept); a marker whose text is not found stays where it was.
C18_MarkersReanchored ==
    \A oldLines, newLines \in AdjustLines :
        LET after == adjustByContent(tracked, oldLines, newLines)
        IN \A i \in 1..Len(tracked) :
              tracked[i].line <= Len(oldLines) =>
                  LET to == FirstMatch(newLines, oldLines[tracked[i].line])
                  IN \E j \in 1..Len(after) :
                        /\ SameOwner(after[j], tracked[i])
                        /\ after[j].line = IF to = 0 THEN tracked[i].line ELSE to

\* ========================================================== GutterIcons.js
\* this.icons: a Map whose key is a line number, the string "start-end" of a
\* range, or "start-end-end" of the icon closing a range; as the sequence of
\* its values in insertion order, each carrying its key.
LineKey(lineNumber) == [kind |-> "line", start |-> lineNumber, end |-> lineNumber]
RangeKey(lineNumber, endLine) == [kind |-> "range", start |-> lineNumber, end |-> endLine]
RangeEndKey(lineNumber, endLine) == [kind |-> "rangeEnd", start |-> lineNumber, end |-> endLine]

IconDelete(map, key) == SelectSeq(map, LAMBDA ic : ic.key # key)

IconSet(map, key, icon) ==
    IF \E i \in 1..Len(map) : map[i].key = key
    THEN [i \in 1..Len(map) |-> IF map[i].key = key THEN icon ELSE map[i]]
    ELSE Append(map, icon)

\* GutterIcons.hide(lineNumber): the icon of that line, and every range and
\* range-end icon whose "start-end" includes it.
hide(map, lineNumber) ==
    SelectSeq(map, LAMBDA ic :
        IF ic.key.kind = "line" THEN ic.key.start # lineNumber
        ELSE ~(lineNumber >= ic.key.start /\ lineNumber <= ic.key.end))

\* for (let i = lineNumber; i <= endLine; i++) this.hide(i)
RECURSIVE HideLines(_, _, _)
HideLines(map, i, endLine) ==
    IF i > endLine THEN map ELSE HideLines(hide(map, i), i + 1, endLine)

Icon(key, line, endLine, userName, changeType) ==
    [key |-> key, line |-> line, endLine |-> endLine,
     userName |-> userName, changeType |-> changeType]

\* GutterIcons.show(lineNumber, userName, changeType, metadata, endLine)
iconsShow(map, lineNumber, userName, changeType, endLine) ==
    IF lineNumber < 1 THEN map
    ELSE LET iconKey == IF endLine # NoEndLine THEN RangeKey(lineNumber, endLine)
                        ELSE LineKey(lineNumber)
             hidden == IF endLine # NoEndLine THEN HideLines(map, lineNumber, endLine)
                       ELSE hide(map, lineNumber)
             withIcon == IconSet(hidden, iconKey,
                                 Icon(iconKey, lineNumber, endLine, userName, changeType))
         IN IF endLine # NoEndLine /\ endLine > lineNumber
            THEN IconSet(withIcon, RangeEndKey(lineNumber, endLine),
                         Icon(RangeEndKey(lineNumber, endLine), endLine, NoEndLine,
                              userName, changeType))
            ELSE withIcon

\* GutterIcons.clear()
iconsClear(map) == << >>

\* Variant: the index findIndex returns is taken for the line number.
IconsToUpdateZeroBased(map, oldLines, newLines) ==
    LET moves == [i \in 1..Len(map) |->
                    [icon |-> map[i], oldLine |-> map[i].key.start,
                     newLine |-> IF map[i].key.kind = "line" /\ map[i].key.start <= Len(oldLines)
                                 THEN FirstMatch(newLines, oldLines[map[i].key.start]) - 1
                                 ELSE -1]]
    IN SelectSeq(moves, LAMBDA mv : mv.newLine # -1 /\ mv.newLine # mv.oldLine)

\* The forEach of adjustByContent: the icons to move, in Map order.  A
\* string key compared with oldLines.length is never <=.
IconsToUpdate(map, oldLines, newLines) ==
    LET moves == [i \in 1..Len(map) |->
                    [icon |-> map[i], oldLine |-> map[i].key.start,
                     newLine |-> IF map[i].key.kind = "line" /\ map[i].key.start <= Len(oldLines)
                                 THEN FirstMatch(newLines, oldLines[map[i].key.start])
                                 ELSE 0]]
    IN SelectSeq(moves, LAMBDA mv : mv.newLine # 0 /\ mv.newLine # mv.oldLine)

\* iconsToUpdate.forEach: delete(oldLine), dataset.line = newLine, set(newLine, icon)
RECURSIVE MoveIcons(_, _, _)
MoveIcons(map, moves, i) ==
    IF i > Len(moves) THEN map
    ELSE MoveIcons(IconSet(IconDelete(map, LineKey(moves[i].oldLine)),
                           LineKey(moves[i].newLine),
                           [moves[i].icon EXCEPT !.key = LineKey(moves[i].newLine),
                                                 !.line = moves[i].newLine]),
                   moves, i + 1)

\* GutterIcons.adjustByContent(oldLines, newLines)
iconsAdjustByContent(map, oldLines, newLines) ==
    MoveIcons(map, IconsToUpdate(map, oldLines, newLines), 1)

\* ------------------------------------ a GutterIcons driven on its own
iconSystemVars == <<mergeSystemVars, mergeCall>>

IconShow(lineNumber, userName, changeType, endLine) ==
    /\ icons' = iconsShow(icons, lineNumber, userName, changeType, endLine)
    /\ UNCHANGED iconSystemVars

IconHide(lineNumber) ==
    /\ icons' = hide(icons, lineNumber)
    /\ UNCHANGED iconSystemVars

IconAdjust(oldLines, newLines) ==
    /\ icons' = iconsAdjustByContent(icons, oldLines, newLines)
    /\ UNCHANGED iconSystemVars

IconClear ==
    /\ icons # << >>
    /\ icons' = iconsClear(icons)
    /\ UNCHANGED iconSystemVars

IconNext ==
    \/ \E lineNumber \in 0..MaxLine, changeType \in ChangeTypes :
         \E endLine \in {NoEndLine} \cup lineNumber..MaxLine :
            IconShow(lineNumber, "User A", changeType, endLine)
    \/ \E lineNumber \in 1..MaxLine : IconHide(lineNumber)
    \/ \E oldLines, newLines \in AdjustLines : IconAdjust(oldLines, newLines)
    \/ IconClear

IconSpec == MarkerInit /\ [][IconNext]_vars

\* C19: re-anchoring never deletes an annotation: adjustByContent leaves as
\* many icons tracked as there were before.
C19_ReanchoringKeepsCount ==
    [][\A oldLines, newLines \in AdjustLines :
          IconAdjust(oldLines, newLines) => Len(icons') = Len(icons)]_vars


\* ------------------------------------------------ the timers of the handlers
\* consolidateMarkersIntoRanges: the markers stored without an end line, by
\* line; every run of two or more consecutive lines is replaced by one range.
SingleLineMarkers(pm) == {m.line : m \in {x \in Range(pm) : x.endLine = NoEndLine}}

RangeStarts(lines) == {l \in lines : (l - 1) \notin lines /\ (l + 1) \in lines}

RangeEndOf(lines, start) ==
    CHOOSE e \in lines : e >= start /\ (start..e) \subseteq lines /\ (e + 1) \notin lines

RECURSIVE ReplaceRanges(_, _, _, _, _)
ReplaceRanges(pm, lines, starts, userName, changeType) ==
    IF starts = {} THEN pm
    ELSE LET start == CHOOSE l \in starts : \A k \in starts : l <= k
             end == RangeEndOf(lines, start)
         IN ReplaceRanges(show(RemoveKeys(pm, start, end), start, userName, changeType, end),
                          lines, starts \ {start}, userName, changeType)

consolidateMarkersIntoRanges(pm, userName, changeType) ==
    LET lines == SingleLineMarkers(pm)
    IN IF Cardinality(lines) < 2 THEN pm
       ELSE ReplaceRanges(pm, lines, RangeStarts(lines), userName, changeType)

\* The timer the event loop runs next: the one due first, the one set first
\* among those due together, once its time has come.
IsNextTimer(i) ==
    /\ timers.pending[i].due <= now
    /\ \A j \in 1..Len(timers.pending) :
          \/ j = i
          \/ timers.pending[j].due > timers.pending[i].due
          \/ timers.pending[j].due = timers.pending[i].due /\ j > i

RemoveAt(seq, i) == SubSeq(seq, 1, i - 1) \o SubSeq(seq, i + 1, Len(seq))

timerSystemVars == <<changes, reservations, recentAdditions, recentEdits,
                     baselineContent, rangeResult, now, warned, blockVars, callVars,
                     repoVars, lastEdit, burst, nEvents>>

\* A timer's callback runs: after an edit, consolidateMarkersIntoRanges and
\* the positions; after a content change, the positions alone; after a pull
\* by a side, clearPersistentMarkers of the other side's marker.
TimerFire ==
    /\ timers.tracked # {}
    /\ \E i \in 1..Len(timers.pending) :
         LET callback == timers.pending[i].callback
         IN /\ IsNextTimer(i)
            /\ persistentMarkers' =
                  IF callback.reason = "consolidate"
                  THEN [persistentMarkers EXCEPT
                          ![callback.side] =
                              consolidateMarkersIntoRanges(@, UserName(callback.side),
                                                           callback.changeType)]
                  ELSE IF callback.reason = "pulled"
                  THEN [persistentMarkers EXCEPT
                          ![Other(callback.side)] = clearPersistentMarkers(@)]
                  ELSE persistentMarkers
            /\ timers' = [timers EXCEPT !.pending = RemoveAt(@, i)]
    /\ UNCHANGED timerSystemVars

TimerInit ==
    /\ ProgramInit
    /\ mergeCall = NoCall
    /\ timers = [tracked |-> TimerReasons, pending |-> << >>]

\* The events of editor A, the clock and the timers.
TimerNext ==
    \/ \E line \in EditLines, text \in Buffers : OnLineAdded("A", line, text)
    \/ \E line \in EditLines, text \in Buffers : OnLineEdited("A", line, text)
    \/ \E text \in Buffers : OnContentChange("A", text)
    \/ \E d \in TickSteps : Tick(d)
    \/ TimerFire

TimerSpec == TimerInit /\ [][TimerNext]_vars

PendingFor(s, reason) ==
    {i \in 1..Len(timers.pending) :
        /\ timers.pending[i].callback.side = s
        /\ timers.pending[i].callback.reason = reason}

\* C20: a second deferral inside the delay cancels and restarts the pending
\* timer, so at any time at most one timer is pending per side and reason
\* (the post-edit consolidation, the post-content-change position refresh).
C20_OneTimerPerReason ==
    \A s \in Side, reason \in {"consolidate", "positions"} :
        Cardinality(PendingFor(s, reason)) <= 1


\* ============================================================ push and pull
\* Array.from(changesX.values()), here by line: createChangeBlocks sorts
\* them by line whatever their order.
KeyAt(map, i) == CHOOSE k \in DOMAIN map : Cardinality({j \in DOMAIN map : j < k}) = i - 1

Values(map) == [i \in 1..Cardinality(DOMAIN map) |-> map[KeyAt(map, i)]]

\* .map(change => ({lineContent, lineNumber, changeType, userName}))
Published(map, userName) ==
    [l \in DOMAIN map |->
        [lineContent |-> map[l].lineContent, lineNumber |-> map[l].lineNumber,
         changeType |-> map[l].changeType, userName |-> userName]]

\* Variant: the puller's text is replaced by the publisher's.
mergeBuffersSourceOnly(targetLines, sourceLines) == sourceLines

\* mergeCode on two editor texts, each held as its lines
mergeBuffers(targetLines, sourceLines) ==
    [i \in 1..Max(Len(targetLines), Len(sourceLines)) |->
        MergedLine(targetLines, sourceLines, i)]

\* Variant: a pull does not look at what there is to pull.
HasContentOrNot(repository) ==
    TRUE

\* !gitRepository.userX.content is false
HasContent(repository) ==
    repository.content # Null /\ Truthy(repository.content)

\* One more push or pull.
Sync ==
    /\ nSyncs < MaxSyncs
    /\ nSyncs' = nSyncs + 1

Pushed(s) == [event |-> "pushed", side |-> s]
Pulled(s) == [event |-> "pulled", side |-> s]
NothingToPull(s) == [event |-> "No content to pull", side |-> s]

\* The click handler of gitPushA / gitPushB. User A's handler stores
\* uncommittedBlocksA in the repository before it computes the new blocks,
\* User B's after.
Push(s) ==
    LET changesArray == Values(changes[s])
        blocks == createChangeBlocks(changesArray, UserName(s), now)
    IN /\ Sync
       /\ gitRepository' = [gitRepository EXCEPT
              ![s] = [content |-> content[s],
                      changes |-> Published(changes[s], UserName(s)),
                      uncommittedBlocks |->
                          IF s = "A" THEN uncommittedBlocks[s] ELSE blocks]]
       /\ uncommittedBlocks' = [uncommittedBlocks EXCEPT ![s] = blocks]
       /\ changeBlocks' = [changeBlocks EXCEPT
              ![Other(s)] = CreateAll(clear(@), blocks, 1, UserName(s))]
       /\ groupedFrom' = changesArray
       /\ baselineContent' = [baselineContent EXCEPT ![s] = content[s]]
       /\ logged' = Pushed(s)
       /\ UNCHANGED <<persistentMarkers, changes, reservations, recentAdditions,
                      recentEdits, rangeResult, now, warned, splitResult, callVars,
                      timers, content, lastEdit, burst, nEvents>>

\* Variant: a pull also empties the publisher's facts.
PullClearingFacts(s) ==
    IF ~HasContent(gitRepository[Other(s)])
    THEN /\ Sync
         /\ logged' = NothingToPull(s)
         /\ UNCHANGED <<persistentMarkers, changes, reservations, recentAdditions,
                        recentEdits, baselineContent, rangeResult, now, warned,
                        blockVars, callVars, timers, content, gitRepository,
                        lastEdit, burst, nEvents>>
    ELSE LET mergedContent == mergeBuffers(content[s], gitRepository[Other(s)].content)
         IN /\ Sync
            /\ content' = [content EXCEPT ![s] = mergedContent]
            /\ changeBlocks' = [changeBlocks EXCEPT ![s] = clear(@)]
            /\ setTimeout([side |-> s, reason |-> "pulled"], ConsolidateDelay)
            /\ gitRepository' = [gitRepository EXCEPT ![Other(s)] = EmptyRepository]
            /\ baselineContent' = [baselineContent EXCEPT ![s] = mergedContent]
            /\ logged' = Pulled(s)
            /\ changes' = [changes EXCEPT ![Other(s)] = EmptyMap]
            /\ UNCHANGED <<persistentMarkers, reservations, recentAdditions,
                           recentEdits, rangeResult, now, warned, uncommittedBlocks,
                           splitResult, groupedFrom, callVars, lastEdit, burst, nEvents>>

\* The click handler of gitPullA / gitPullB.
Pull(s) ==
    IF ~HasContent(gitRepository[Other(s)])
    THEN /\ Sync
         /\ logged' = NothingToPull(s)
         /\ UNCHANGED <<persistentMarkers, changes, reservations, recentAdditions,
                        recentEdits, baselineContent, rangeResult, now, warned,
                        blockVars, callVars, timers, content, gitRepository,
                        lastEdit, burst, nEvents>>
    ELSE LET mergedContent == mergeBuffers(content[s], gitRepository[Other(s)].content)
         IN /\ Sync
            /\ content' = [content EXCEPT ![s] = mergedContent]
            /\ changeBlocks' = [changeBlocks EXCEPT ![s] = clear(@)]
            /\ setTimeout([side |-> s, reason |-> "pulled"], ConsolidateDelay)
            /\ gitRepository' = [gitRepository EXCEPT ![Other(s)] = EmptyRepository]
            /\ baselineContent' = [baselineContent EXCEPT ![s] = mergedContent]
            /\ logged' = Pulled(s)
            /\ UNCHANGED <<persistentMarkers, changes, reservations, recentAdditions,
                           recentEdits, rangeResult, now, warned, uncommittedBlocks,
                           splitResult, groupedFrom, callVars, lastEdit, burst, nEvents>>

\* changeBlocksX.onInsertBetween(blockId, startLine, midLine, endLine)
OnInsertBetween(s, blockId, midLine) ==
    LET r == split(changeBlocks[s], blockId, midLine)
    IN /\ changeBlocks' = [changeBlocks EXCEPT ![s] = r.blocks]
       /\ splitResult' = r.result
       /\ UNCHANGED <<persistentMarkers, changes, reservations, recentAdditions,
                      recentEdits, baselineContent, rangeResult, now, warned,
                      uncommittedBlocks, groupedFrom, callVars, timers, repoVars,
                      lastEdit, burst, nEvents>>

\* What an editor holds after a line was typed: the line at the top, or
\* below an empty line.
SyncTexts == {<< "a" >>, << "", "a" >>}

\* Line edits in the two editors, the push and pull buttons, the splits,
\* the clock and the timers. Additions and content changes are followed in
\* EditSpec.
SyncNext ==
    \/ \E s \in Side, line \in EditLines, text \in SyncTexts : OnLineEdited(s, line, text)
    \/ \E s \in Side : Push(s)
    \/ \E s \in Side : Pull(s)
    \/ \E s \in Side, midLine \in EditLines :
          \E i \in 1..Len(changeBlocks[s]) :
             OnInsertBetween(s, changeBlocks[s][i].blockId, midLine)
    \/ Tick(BurstWindow)
    \/ TimerFire

\* Both editors start with one line of text. Of the timers, those of the
\* pulls are followed: consolidateMarkersIntoRanges finds no marker without
\* an end line, and the positions are not held.
SyncInit ==
    /\ ProgramInit
    /\ baselineContent = [s \in Side |-> << "a" >>]
    /\ mergeCall = NoCall
    /\ timers = [tracked |-> {"pulled"}, pending |-> << >>]

SyncSpec == SyncInit /\ [][SyncNext]_vars


\* ------------------------------------------------ properties of push and pull
\* A pull by side s whose deferred cleanup has not run yet.
CleanupPending(s) ==
    \E i \in 1..Len(timers.pending) :
        timers.pending[i].callback = [side |-> s, reason |-> "pulled"]

\* C21: a pull is atomic for the puller: in no state between events are the
\* puller's pending blocks and the publisher's repository entry already
\* cleared by a pull while the publisher's marker ranges are still shown.
C21_PullAtomic ==
    \A s \in Side :
        (/\ CleanupPending(s)
         /\ changeBlocks[s] = << >>
         /\ gitRepository[Other(s)] = EmptyRepository)
            => persistentMarkers[Other(s)] = << >>


\* What only a side's own edit events may write.
Owned(s) == <<changes[s], reservations[s], recentAdditions[s], recentEdits[s]>>

C23_PushReplacesBlocks ==
    [][\A s \in Side :
          Push(s) =>
             LET blocks == createChangeBlocks(Values(changes[s]), UserName(s), now)
                 shownAfter == changeBlocks'[Other(s)]
             IN /\ Len(shownAfter) = Len(blocks)
                /\ \A i \in 1..Len(blocks) :
                      /\ shownAfter[i].blockId = blocks[i].blockId
                      /\ shownAfter[i].startLine = blocks[i].startLine
                      /\ shownAfter[i].endLine = blocks[i].endLine
                      /\ shownAfter[i].changes = blocks[i].changes
                      /\ shownAfter[i].changeType = blocks[i].changeType
                      /\ shownAfter[i].userName = UserName(s)]_vars

\* User A pushed, a block of that push was split in editor B, and a second
\* push of User A has put unsplit blocks in place of the parts.
C23_Witness ==
    /\ logged = Pushed("A")
    /\ splitResult.done
    /\ splitResult.firstBlockId.userName = "User A"
    /\ changeBlocks["B"] # << >>
    /\ \A i \in 1..Len(changeBlocks["B"]) : changeBlocks["B"][i].blockId.part = << >>


\* An editor text as mergeCode sees it: its lines joined by "\n".
LineChars(line) == IF line = "" THEN << >> ELSE << line >>
ToText(buffer) == StrJoin([i \in 1..Len(buffer) |-> LineChars(buffer[i])])

\* C24: a pull by a side that finds content sets the side's text to
\* mergeCode(its text, the pushed content) and the publisher's repository
\* entry to content null, no changes and no blocks; the side's own entry
\* stays as it was.
C24_PullMergesAndClears ==
    [][nSyncs' # nSyncs =>
          \A s \in Side :
             (HasContent(gitRepository[Other(s)]) /\ Pull(s)) =>
                /\ ToText(content'[s]) =
                      mergeCode(ToText(content[s]), ToText(gitRepository[Other(s)].content))
                /\ gitRepository'[Other(s)] =
                      [content |-> Null, changes |-> << >>, uncommittedBlocks |-> << >>]
                /\ gitRepository'[s] = gitRepository[s]]_vars

\* A side that had pushed itself has pulled, and holds a merged text of two
\* lines.
C24_Witness ==
    /\ logged.event = "pulled"
    /\ gitRepository[logged.side].content # Null
    /\ Len(content[logged.side]) = Len(gitRepository[logged.side].content) + 1


\* C26: a pull that finds content destroys the facts the publisher pushed:
\* right after it the publisher's store of facts is empty, so that a push
\* with no edit in between would show no block.
C26_PullDestroysFacts ==
    [][nSyncs' # nSyncs =>
          \A s \in Side :
             (HasContent(gitRepository[Other(s)]) /\ Pull(s)) =>
                changes'[Other(s)] = EmptyMap]_vars


\* C27: a pull by a side while the other side's repository content is null
\* changes nothing: the texts and baselines, the blocks, the marker ranges
\* and the repository entries stay as they are and no timer is set.
C27_EmptyPullIsNoOp ==
    [][nSyncs' # nSyncs =>
          \A s \in Side :
             (gitRepository[Other(s)].content = Null /\ Pull(s)) =>
                UNCHANGED <<content, baselineContent, changeBlocks, uncommittedBlocks,
                            persistentMarkers, gitRepository, timers>>]_vars

\* User B, who has pushed, has pulled and found nothing, while ranges of
\* User A are shown.
C27_Witness ==
    /\ logged = NothingToPull("B")
    /\ gitRepository["A"].content = Null
    /\ gitRepository["B"].content # Null
    /\ persistentMarkers["A"] # << >>


\* C28: a push publishes by value: an edit event of a side changes neither
\* the side's repository entry nor the blocks of its pushes that the other
\* editor shows.
C28_PushIsSnapshot ==
    [][nEvents' # nEvents =>
          \A s \in Side :
             (\E line \in EditLines, text \in SyncTexts : OnLineEdited(s, line, text))
                => /\ gitRepository'[s] = gitRepository[s]
                   /\ changeBlocks'[Other(s)] = changeBlocks[Other(s)]]_vars


\* ------------------------------------------- a candidate that merges nowhere
\* C29: a show call whose candidate merges with no tracked range adds the
\* candidate as a new range and changes nothing else: the ranges afterwards
\* are those before plus the candidate.
C29_NewRangeKeepsOthers ==
    [][\A lineNumber \in 1..MaxLine, userName \in Users, changeType \in ChangeTypes :
          \A endLine \in {NoEndLine} \cup lineNumber..MaxLine :
             LET currentEnd == IF endLine # NoEndLine THEN endLine ELSE lineNumber
             IN (/\ MarkerShow(lineNumber, userName, changeType, endLine)
                 /\ \A i \in 1..Len(tracked) :
                       ~MergeCandidate(tracked[i], userName, changeType,
                                       lineNumber, currentEnd))
                   => Tuples(tracked') =
                        Tuples(tracked) \cup
                          {AnnotationRange(lineNumber, currentEnd, userName, changeType)}]_vars


\* ------------------------------------------------------ the burst windows
\* What C30 says of a side's window after an edit event at line `line`
\* read with text `text`.
WindowDiscipline(before, after, line, text) ==
    LET trigger == [line |-> line, content |-> LineAt(text, line), timestamp |-> now]
        unexpired == SelectSeq(before, LAMBDA e : now - e.timestamp < BurstWindow)
    IN /\ \A i \in 1..Len(after) : now - after[i].timestamp < BurstWindow
       /\ rangeResult'.isRange => after = << >>
       /\ ~rangeResult'.isRange => after = unexpired \o << trigger >>

\* C30: after an edit event the side's window of that kind holds only
\* entries less than 500 ms old; it is empty after an event reported as a
\* range, and after a single-line event it holds the unexpired entries it
\* held followed by the triggering entry.
C30_WindowDiscipline ==
    [][nEvents' # nEvents =>
          \A s \in Side, line \in EditLines, text \in Buffers :
             /\ OnLineAdded(s, line, text) =>
                   WindowDiscipline(recentAdditions[s], recentAdditions'[s], line, text)
             /\ OnLineEdited(s, line, text) =>
                   WindowDiscipline(recentEdits[s], recentEdits'[s], line, text)]_vars

\* Three line edits of one side, the first half a window before the second
\* and a whole window before the third: the third, a single-line event,
\* leaves the second and itself in the window.
C30_Witness ==
    \E s \in Side :
        /\ nEvents = MaxEvents
        /\ changes[Other(s)] = EmptyMap
        /\ \A l \in DOMAIN changes[s] : changes[s][l].changeType = "edited"
        /\ ~rangeResult.isRange
        /\ now = BurstWindow
        /\ Len(recentEdits[s]) = 2
        /\ recentEdits[s][1].timestamp = BurstWindow \div 2
        /\ recentEdits[s][2].timestamp = now


\* ------------------------------------------------- the cleanup after a pull
\* Edits of the first line, pushes and pulls of both sides with the clock
\* and the timers. The
\* browser runs a timer's callback once its delay has passed and the clock
\* never stops, hence the weak fairness of TimerFire and of Tick.
CleanupNext ==
    \/ \E s \in Side : OnLineEdited(s, 1, << "a" >>)
    \/ \E s \in Side : Push(s)
    \/ \E s \in Side : Pull(s)
    \/ \E d \in TickSteps : Tick(d)
    \/ TimerFire

CleanupSpec ==
    /\ SyncInit
    /\ [][CleanupNext]_vars
    /\ WF_vars(\E d \in TickSteps : Tick(d))
    /\ WF_vars(TimerFire)

\* The cleanup timer of a pull by s is pending and falls due inside the
\* modelled time.
CleanupDue(s) ==
    \E i \in 1..Len(timers.pending) :
        /\ timers.pending[i].callback = [side |-> s, reason |-> "pulled"]
        /\ timers.pending[i].due <= MaxTime

\* C25: a successful pull by a side leaves none of the blocks that were
\* pending in its editor, and is eventually followed, once its cleanup timer
\* fires, by a state in which none of the publisher's marker ranges is shown.
C25_PullCleansUpEventually ==
    /\ [][\A s \in Side :
             (logged' = Pulled(s) /\ nSyncs' # nSyncs) => changeBlocks'[s] = << >>]_vars
    /\ \A s \in Side :
          (logged = Pulled(s) /\ CleanupDue(s)) ~> (persistentMarkers[Other(s)] = << >>)

\* A side has pulled what the other, who had edited, pushed; the cleanup
\* timer has fired and the publisher's ranges are gone.
C25_Witness ==
    \E s \in Side :
        /\ logged = Pulled(s)
        /\ timers.pending = << >>
        /\ changes[Other(s)] # EmptyMap
        /\ gitRepository[Other(s)] = EmptyRepository
        /\ persistentMarkers[Other(s)] = << >>


\* ------------------------------------------------------- a reported range
\* User A's line events in an editor that held two lines when the hook was
\* set up; a line may since have been put between them.
PasteTexts == {<< "a", "a" >>, << "a", "", "a" >>}

PasteInit ==
    /\ Constructed({<< "a", "a" >>})
    /\ mergeCall = NoCall
    /\ timers = NoTimers

PasteNext ==
    \/ \E line \in EditLines, text \in PasteTexts : OnLineAdded("A", line, text)
    \/ \E line \in EditLines, text \in PasteTexts : OnLineEdited("A", line, text)
    \/ \E d \in TickSteps : Tick(d)

PasteSpec == PasteInit /\ [][PasteNext]_vars

\* What C31 says of side s after an event of kind changeType reported as
\* the range rangeResult'.
RangeRecorded(s, changeType) ==
    LET rangeStart == rangeResult'.startLine
        rangeEnd == rangeResult'.endLine
        covering == {i \in 1..Len(persistentMarkers'[s]) :
                        /\ persistentMarkers'[s][i].rawUser = UserName(s)
                        /\ persistentMarkers'[s][i].changeType = changeType
                        /\ persistentMarkers'[s][i].line <= rangeStart
                        /\ persistentMarkers'[s][i].endLine >= rangeEnd}
    IN /\ \A l \in rangeStart..rangeEnd :
             /\ l \in DOMAIN changes'[s]
             /\ changes'[s][l].lineNumber = l
             /\ changes'[s][l].userName = UserName(s)
             /\ changes'[s][l].changeType = changeType
             /\ l \in DOMAIN reservations'[s]
             /\ reservations'[s][l].userName = UserName(s)
       /\ Cardinality(covering) = 1

\* C31: after an event reported as a range [s,e], every line of s..e has its
\* own fact and its own reservation on that side, all with the author and the
\* kind of the event, and one range of that author and kind covers s..e.
C31_RangeRecordedWhole ==
    [][(nEvents' # nEvents /\ rangeResult'.isRange) =>
          \A s \in Side, line \in EditLines, text \in PasteTexts :
             /\ OnLineAdded(s, line, text) => RangeRecorded(s, "added")
             /\ OnLineEdited(s, line, text) => RangeRecorded(s, "edited")]_vars

\* ------------------------------------------------- what a push publishes
\* C32: after a push by a side, A or B alike, the side's repository entry
\* holds the pushed buffer, a copy of the side's facts and, as pending
\* blocks, the blocks that this push created and handed to the other side.
C32_PushPublishesItsBlocks ==
    [][\A s \in Side :
          (nSyncs' # nSyncs /\ logged' = Pushed(s)) =>
             /\ gitRepository'[s].content = content[s]
             /\ gitRepository'[s].changes = Published(changes[s], UserName(s))
             /\ gitRepository'[s].uncommittedBlocks = uncommittedBlocks'[s]]_vars


\* ------------------------------------------------------ the conflict check
\* C33: an edit event of a side on a line the other side's ledger holds a
\* reservation for reports a conflict naming the other author, whether the
\* event is handled as a single line or as part of a range.
C33_ConflictAlwaysReported ==
    [][nEvents' # nEvents =>
          \A s \in Side, line \in EditLines, text \in Buffers :
             (/\ OnLineAdded(s, line, text) \/ OnLineEdited(s, line, text)
              /\ line \in DOMAIN reservations[Other(s)])
                => /\ warned'.hasConflict
                   /\ warned'.conflictingUser = UserName(Other(s))]_vars


\* ------------------------------------- edits between a pull and its cleanup
\* User A edits and pushes, User B pulls, on a clock fine enough to place an
\* edit between a pull and the callback of its timer.
RaceNext ==
    \/ \E text \in Buffers : OnLineEdited("A", 1, text)
    \/ Push("A")
    \/ Pull("B")
    \/ Tick(PositionsDelay)
    \/ TimerFire

RaceSpec == SyncInit /\ [][RaceNext]_vars

Covers(pm, l) == \E i \in 1..Len(pm) : pm[i].line <= l /\ l <= pm[i].endLine

\* C34: the cleanup of a pull removes only what was shown when the pull
\* happened: a marker range of a line the publisher edited after the pull
\* and before the cleanup timer fell due is still shown after the callback.
C34_CleanupSparesLaterRanges ==
    [][\A i \in 1..Len(timers.pending) :
          LET timer == timers.pending[i]
              publisher == Other(timer.callback.side)
              pulledAt == timer.due - ConsolidateDelay
          IN (/\ timer.callback.reason = "pulled"
              /\ IsNextTimer(i)
              /\ timers' = [timers EXCEPT !.pending = RemoveAt(@, i)])
                => \A l \in DOMAIN changes[publisher] :
                      (/\ changes[publisher][l].timestamp > pulledAt
                       /\ changes[publisher][l].timestamp < timer.due
                       /\ Covers(persistentMarkers[publisher], l))
                         => Covers(persistentMarkers'[publisher], l)]_vars


\* ------------------------------------------------- pairs of consecutive lines
\* The event at `line` completes a pair of consecutive lines in the
\* unexpired window `recent` (the triggering entry included).
CompletesPair(recent, line, L) ==
    /\ line \in {L, L + 1}
    /\ \E i, j \in 1..Len(recent) : recent[i].line = L /\ recent[j].line = L + 1

PairReported(L) ==
    /\ rangeResult'.isRange
    /\ rangeResult'.startLine <= L
    /\ rangeResult'.endLine >= L + 1

\* The window entry of an event at `line` read with text `text`.
EntryOf(line, text) == [line |-> line, content |-> LineAt(text, line), timestamp |-> now]

LowestOnce(recent, L) ==
    /\ \A i \in 1..Len(recent) : recent[i].line >= L
    /\ Cardinality({i \in 1..Len(recent) : recent[i].line = L}) = 1

NoDuplicates(lines) == \A i, j \in 1..Len(lines) : lines[i] = lines[j] => i = j

\* The block's first change is not in the text, or is first found at the
\* block's first line.
Anchored(blockData, lines) ==
    \/ blockData.changes = << >>
    \/ FirstMatch(lines, blockData.changes[1]) \in {0, blockData.startLine}

MidLine(blockData) == (blockData.startLine + blockData.endLine) \div 2

\* C37: whenever Insert Between is offered for a block (it holds more than
\* one change), the mid line its click passes on is a valid split line:
\* split returns the ids of two blocks, never null.
C37_InsertBetweenSplits ==
    \A s \in Side : \A i \in 1..Len(changeBlocks[s]) :
        LET blockData == changeBlocks[s][i]
        IN Len(blockData.changes) > 1
              => split(changeBlocks[s], blockData.blockId, MidLine(blockData)).result.done


\* ------------------------------------------------- the shape of a block
\* C38: every pending change block has startLine <= endLine and holds
\* exactly endLine - startLine + 1 changes, whatever pushes, splits and
\* adjustments by content have happened.
C38_BlockShape ==
    \A s \in Side : \A i \in 1..Len(changeBlocks[s]) :
        /\ changeBlocks[s][i].startLine <= changeBlocks[s][i].endLine
        /\ Len(changeBlocks[s][i].changes) =
              changeBlocks[s][i].endLine - changeBlocks[s][i].startLine + 1

\* A block of three lines has been pushed and split in two.
C38_Witness ==
    /\ splitResult # NoSplit
    /\ \E s \in Side :
          /\ Len(changeBlocks[s]) = 2
          /\ \E i \in 1..2 : Len(changeBlocks[s][i].changes) = 2


\* ------------------------------------------------ a pull of what was pushed
\* C39: when the other side has pushed since this side's last successful
\* pull (its repository content is not null), a pull takes effect whatever
\* the pushed text, the empty text included: it replaces the puller's
\* buffer, clears its pending blocks and clears the publisher's entry.
C39_PullTakesEffect ==
    [][nSyncs' # nSyncs =>
          \A s \in Side :
             (gitRepository[Other(s)].content # Null /\ Pull(s)) =>
                /\ logged' = Pulled(s)
                /\ content'[s] = mergeBuffers(content[s], gitRepository[Other(s)].content)
                /\ changeBlocks'[s] = << >>
                /\ gitRepository'[Other(s)] = EmptyRepository]_vars


\* ------------------------------------------------ reservations are for good
\* C40: over every edit, push, pull and timer step a side's ledger keeps
\* every line it has reserved and holds reservations of its own author
\* only, and so an edit of a line the other side has reserved (has edited,
\* at any time before, pulls in between or not) reports a conflict.
C40_ReservationsNeverReleased ==
    [][/\ \A s \in Side :
             /\ DOMAIN reservations[s] \subseteq DOMAIN reservations'[s]
             /\ \A l \in DOMAIN reservations'[s] :
                   reservations'[s][l].userName = UserName(s)
       /\ nEvents' # nEvents =>
             \A s \in Side, line \in EditLines, text \in SyncTexts :
                (/\ OnLineEdited(s, line, text)
                 /\ line \in DOMAIN reservations[Other(s)])
                   => /\ warned'.hasConflict
                      /\ warned'.conflictingUser = UserName(Other(s))]_vars

====
